---- MODULE Spec2Model ----
(***************************************************************************)
(* Model of the rag-microservice /ask pipeline: server/vectorStore.js      *)
(* (loadVectors, dot, norm, cosine, topK) and the POST /ask handler of     *)
(* server/index.js (input validation, embedding call, retrieval, exact     *)
(* filename boost, threshold filter with fallback, doc-frequency re-rank,  *)
(* generation call, JSON parse and shape validation, responses).           *)
(*                                                                         *)
(* Text is a sequence of one-character strings.  Scores are fixed-point    *)
(* numbers in units of 1/Scale; the embeddings drawn below have integral   *)
(* norms, so every cosine is exact in that unit.                           *)
(***************************************************************************)
EXTENDS Integers, Sequences, FiniteSets, TLC

VARIABLES vectors, loaded, env, req

vars == <<vectors, loaded, env, req>>

-----------------------------------------------------------------------------
(* Bounds of the model *)

\* number of /ask requests that may be in flight together
NumRequests == 2

\* longest persisted collection (vectors.json) drawn in SpecRank
MaxChunks == 4

-----------------------------------------------------------------------------
(* Program constants, scores in units of 1/Scale *)

Scale == 100

\* parseFloat(process.env.SCORE_THRESHOLD || '0.20')
SCORE_THRESHOLD == 20

\* rc.score += 0.6
FILENAME_BOOST == 60

\* 0.02 * (docCounts[c.doc] - 1)
DOC_FREQ_UNIT == 2

\* rawContexts.slice(0, Math.min(3, rawContexts.length))
FALLBACK_COUNT == 3

\* parseInt(process.env.TOP_K || '5')
TOP_K_DEFAULT == 5

\* q.length > 2000
MAX_QUESTION_LENGTH == 2000

-----------------------------------------------------------------------------
(* Text helpers: String.prototype.toLowerCase, trim, and the character     *)
(* class of the filename pattern                                           *)

Uppers == <<"A","B","C","D","E","F","G","H","I","J","K","L","M",
            "N","O","P","Q","R","S","T","U","V","W","X","Y","Z">>

Lowers == <<"a","b","c","d","e","f","g","h","i","j","k","l","m",
            "n","o","p","q","r","s","t","u","v","w","x","y","z">>

Digits == {"0","1","2","3","4","5","6","7","8","9"}

Range(s) == {s[i] : i \in DOMAIN s}

\* the array holding f[1], ..., f[n] (what Array.prototype.map builds)
Array(f) == SubSeq(f, 1, Len(f))

Lower(c) ==
  IF \E i \in 1..Len(Uppers) : Uppers[i] = c
  THEN Lowers[CHOOSE i \in 1..Len(Uppers) : Uppers[i] = c]
  ELSE c

toLowerCase(s) == Array([i \in 1..Len(s) |-> Lower(s[i])])

IsSpace(c) == c \in {" ", "\t", "\n", "\r"}

trim(s) ==
  IF \A i \in 1..Len(s) : IsSpace(s[i]) THEN <<>>
  ELSE LET first == CHOOSE i \in 1..Len(s) :
                      ~IsSpace(s[i]) /\ \A j \in 1..(i - 1) : IsSpace(s[j])
           last  == CHOOSE i \in 1..Len(s) :
                      ~IsSpace(s[i]) /\ \A j \in (i + 1)..Len(s) : IsSpace(s[j])
       IN SubSeq(s, first, last)

\* [a-zA-Z0-9_\-]
NameChars == Range(Uppers) \cup Range(Lowers) \cup Digits \cup {"_", "-"}

IsNameChar(c) == c \in NameChars

\* (txt|md|pdf), tried in this order, under the i flag
Extensions == << <<"t","x","t">>, <<"m","d">>, <<"p","d","f">> >>

StartsWithCI(q, i, ext) ==
  /\ i + Len(ext) - 1 <= Len(q)
  /\ \A k \in 1..Len(ext) : Lower(q[i + k - 1]) = ext[k]

\* length of the extension the alternation matches at position i, 0 if none
ExtLenAt(q, i) ==
  IF \E n \in 1..Len(Extensions) : StartsWithCI(q, i, Extensions[n])
  THEN Len(Extensions[CHOOSE n \in 1..Len(Extensions) :
                         /\ StartsWithCI(q, i, Extensions[n])
                         /\ \A m \in 1..(n - 1) : ~StartsWithCI(q, i, Extensions[m])])
  ELSE 0

\* q.match(/([a-zA-Z0-9_\-]+\.(txt|md|pdf))/i): the leftmost match, the name
\* run taken greedily; <<>> stands for null (no match).  A start position
\* matches only when the maximal run of name characters from it ends right
\* before a "." that an extension follows, so the leftmost match starts at the
\* beginning of the first such run.
fileMentionMatch(q) ==
  LET dots == {j \in 2..Len(q) :
                 /\ q[j] = "."
                 /\ IsNameChar(q[j - 1])
                 /\ ExtLenAt(q, j + 1) > 0}
  IN IF dots = {} THEN <<>>
     ELSE LET j == CHOOSE d \in dots : \A e \in dots : d <= e
              s == CHOOSE b \in 1..(j - 1) :
                     /\ \A k \in b..(j - 1) : IsNameChar(q[k])
                     /\ (b = 1 \/ ~IsNameChar(q[b - 1]))
          IN SubSeq(q, s, j + ExtLenAt(q, j + 1))

-----------------------------------------------------------------------------
(* vectorStore.js *)

RECURSIVE SumTo(_, _)
SumTo(f, n) == IF n = 0 THEN 0 ELSE f[n] + SumTo(f, n - 1)

\* function dot(a,b){ let s=0; for(let i=0;i<a.length;i++) s += a[i]*b[i]; return s; }
dot(a, b) == SumTo([i \in 1..Len(a) |-> a[i] * b[i]], Len(a))

\* Math.sqrt, exact on the squares the drawn embeddings give
sqrt(x) == CHOOSE n \in 0..x : n * n = x

norm(a) == sqrt(dot(a, a))

\* dot(a,b)/(norm(a)*norm(b)), in units of 1/Scale
cosine(a, b) == (dot(a, b) * Scale) \div (norm(a) * norm(b))

\* Array.prototype.sort((a,b) => key(b) - key(a)): a stable sort by
\* non-increasing key.  keys[i] is the key of s[i].
SortPosition(keys, i) ==
  1 + Cardinality({j \in 1..Len(keys) :
                     \/ keys[j] > keys[i]
                     \/ (keys[j] = keys[i] /\ j < i)})

SortDescending(s, keys) ==
  LET pos == Array([i \in 1..Len(s) |-> SortPosition(keys, i)])
  IN Array([p \in 1..Len(s) |-> s[CHOOSE i \in 1..Len(s) : pos[i] = p]])

\* Array.prototype.slice(0, k) for k >= 0
slice0(s, k) == SubSeq(s, 1, IF k < Len(s) THEN k ELSE Len(s))

\* topK with the slice taken before the sort
topK_SliceFirst(vecs, queryEmb, k) ==
  LET scored == Array([i \in 1..Len(vecs) |->
                   [score |-> cosine(queryEmb, vecs[i].embedding), v |-> vecs[i]]])
      cut    == slice0(scored, k)
      top    == SortDescending(cut, Array([i \in 1..Len(cut) |-> cut[i].score]))
  IN [out |-> Array([i \in 1..Len(top) |->
                 [score |-> top[i].score, id |-> top[i].v.id, doc |-> top[i].v.doc,
                  chunkIndex |-> top[i].v.chunkIndex, text |-> top[i].v.text]]),
      vectors |-> vecs]

\* topK sorting the module-level vectors array itself, in place
topK_InPlace(vecs, queryEmb, k) ==
  LET keys   == Array([i \in 1..Len(vecs) |-> cosine(queryEmb, vecs[i].embedding)])
      sorted == SortDescending(vecs, keys)
      top    == slice0(sorted, k)
  IN [out |-> Array([i \in 1..Len(top) |->
                 [score |-> cosine(queryEmb, top[i].embedding), id |-> top[i].id,
                  doc |-> top[i].doc, chunkIndex |-> top[i].chunkIndex,
                  text |-> top[i].text]]),
      vectors |-> sorted]

\* export function topK(queryEmb, k=5): the returned list (out) and the
\* module-level vectors array as the call leaves it.
topK(vecs, queryEmb, k) ==
  LET scored == Array([i \in 1..Len(vecs) |->
                   [score |-> cosine(queryEmb, vecs[i].embedding), v |-> vecs[i]]])
      sorted == SortDescending(scored, Array([i \in 1..Len(scored) |-> scored[i].score]))
      top    == slice0(sorted, k)
  IN [out |-> Array([i \in 1..Len(top) |->
                 [score |-> top[i].score, id |-> top[i].v.id, doc |-> top[i].v.doc,
                  chunkIndex |-> top[i].v.chunkIndex, text |-> top[i].v.text]]),
      vectors |-> vecs]

-----------------------------------------------------------------------------
(* /ask: ranking steps *)

\* the boost comparing rc.doc === filename without lower-casing the doc
BoostFileMention_CaseSensitive(q, rawContexts) ==
  LET m == fileMentionMatch(q)
  IN IF m = <<>> THEN rawContexts
     ELSE LET filename == toLowerCase(m)
          IN Array([i \in 1..Len(rawContexts) |->
                IF Len(rawContexts[i].doc) > 0 /\ rawContexts[i].doc = filename
                THEN [rawContexts[i] EXCEPT !.score = @ + FILENAME_BOOST]
                ELSE rawContexts[i]])

\* if (fileMentionMatch) for (const rc of rawContexts)
\*   if (rc.doc && rc.doc.toLowerCase() === filename) rc.score += 0.6
BoostFileMention(q, rawContexts) ==
  LET m == fileMentionMatch(q)
  IN IF m = <<>> THEN rawContexts
     ELSE LET filename == toLowerCase(m)
          IN Array([i \in 1..Len(rawContexts) |->
                IF Len(rawContexts[i].doc) > 0 /\ toLowerCase(rawContexts[i].doc) = filename
                THEN [rawContexts[i] EXCEPT !.score = @ + FILENAME_BOOST]
                ELSE rawContexts[i]])

\* Array.prototype.filter
RECURSIVE filter(_, _)
filter(s, keep) ==
  IF s = <<>> THEN <<>>
  ELSE IF keep[1] THEN <<s[1]>> \o filter(Tail(s), Tail(keep))
       ELSE filter(Tail(s), Tail(keep))

\* the filter without its fallback
FilterWithFallback_NoFallback(rawContexts) ==
  filter(rawContexts,
         Array([i \in 1..Len(rawContexts) |-> rawContexts[i].score >= SCORE_THRESHOLD]))

\* rawContexts.filter(c => c.score >= SCORE_THRESHOLD), with the fallback
FilterWithFallback(rawContexts) ==
  LET passed == filter(rawContexts,
                       Array([i \in 1..Len(rawContexts) |->
                                rawContexts[i].score >= SCORE_THRESHOLD]))
  IN IF Len(passed) = 0 THEN slice0(rawContexts, FALLBACK_COUNT) ELSE passed

\* for (const c of candidates) docCounts[c.doc] = (docCounts[c.doc] || 0) + 1
docCounts(candidates, doc) ==
  Cardinality({i \in 1..Len(candidates) : candidates[i].doc = doc})

\* the re-rank score counting the candidate itself
WithReRankScore_NoMinusOne(c, candidates) ==
  [f \in DOMAIN c \cup {"reRankScore"} |->
     IF f = "reRankScore"
     THEN c.score + DOC_FREQ_UNIT * docCounts(candidates, c.doc)
     ELSE c[f]]

\* { ...c, reRankScore: c.score + 0.02 * (docCounts[c.doc] - 1) }
WithReRankScore(c, candidates) ==
  [f \in DOMAIN c \cup {"reRankScore"} |->
     IF f = "reRankScore"
     THEN c.score + DOC_FREQ_UNIT * (docCounts(candidates, c.doc) - 1)
     ELSE c[f]]

\* the re-rank with the comparator's operands swapped on ties (a >= in place
\* of a subtraction): equal scores come out in reverse order
ReRank_TiesReversed(candidates) ==
  LET mapped == Array([i \in 1..Len(candidates) |->
                         WithReRankScore(candidates[i], candidates)])
      n      == Len(mapped)
      rev    == Array([i \in 1..n |-> mapped[n + 1 - i]])
      sorted == SortDescending(rev, Array([i \in 1..n |-> rev[i].reRankScore]))
  IN sorted

\* candidates.map(...).sort((a, b) => b.reRankScore - a.reRankScore)
ReRank(candidates) ==
  LET mapped == Array([i \in 1..Len(candidates) |->
                         WithReRankScore(candidates[i], candidates)])
  IN SortDescending(mapped, Array([i \in 1..Len(mapped) |-> mapped[i].reRankScore]))

\* the three steps as the handler applies them to topK's result
Rank(q, rawContexts) == ReRank(FilterWithFallback(BoostFileMention(q, rawContexts)))

-----------------------------------------------------------------------------
(* JSON.parse on the trimmed model output.  The grammar covered: whitespace, *)
(* null, true, false, integers, strings without escapes, arrays, objects.    *)
(* Anything else is a SyntaxError.                                           *)

Quote == "\""

StartsWith(s, i, w) ==
  /\ i + Len(w) - 1 <= Len(s)
  /\ \A k \in 1..Len(w) : s[i + k - 1] = w[k]

IsJsonSpace(c) == c \in {" ", "\t", "\n", "\r"}

SkipWs(s, i) ==
  LET rest == {j \in i..Len(s) : ~IsJsonSpace(s[j])}
  IN IF rest = {} THEN Len(s) + 1 ELSE CHOOSE j \in rest : \A k \in rest : j <= k

DigitValue(c) == CHOOSE d \in 0..9 : <<"0","1","2","3","4","5","6","7","8","9">>[d + 1] = c

RECURSIVE DigitsValue(_)
DigitsValue(ds) ==
  IF ds = <<>> THEN 0
  ELSE 10 * DigitsValue(SubSeq(ds, 1, Len(ds) - 1)) + DigitValue(ds[Len(ds)])

SyntaxError == [ok |-> FALSE]

Parsed(v, next) == [ok |-> TRUE, val |-> v, next |-> next]

JsonNull == [t |-> "null"]

JsonBool(b) == [t |-> "boolean", bool |-> b]

JsonNumber(n) == [t |-> "number", num |-> n]

JsonString(s) == [t |-> "string", str |-> s]

JsonArray(items) == [t |-> "array", items |-> items]

JsonObject(fields) == [t |-> "object", fields |-> fields]

\* a string literal starting at the quote s[i]
ParseString(s, i) ==
  LET ends == {j \in (i + 1)..Len(s) : s[j] = Quote}
  IN IF ends = {} THEN SyntaxError
     ELSE LET j == CHOOSE e \in ends : \A f \in ends : e <= f
          IN Parsed(JsonString(SubSeq(s, i + 1, j - 1)), j + 1)

\* an integer literal starting at s[i] (a digit, or "-" before a digit)
ParseNumber(s, i) ==
  LET neg == s[i] = "-"
      d   == IF neg THEN i + 1 ELSE i
  IN IF d > Len(s) \/ s[d] \notin Digits THEN SyntaxError
     ELSE IF s[d] = "0" THEN Parsed(JsonNumber(0), d + 1)
     ELSE LET stop == {j \in d..Len(s) : s[j] \notin Digits}
              e    == IF stop = {} THEN Len(s)
                      ELSE (CHOOSE j \in stop : \A k \in stop : j <= k) - 1
              n    == DigitsValue(SubSeq(s, d, e))
          IN Parsed(JsonNumber(IF neg THEN 0 - n ELSE n), e + 1)

RECURSIVE ParseValue(_, _), ParseElements(_, _, _), ParseMembers(_, _, _)

ParseValue(s, i0) ==
  LET i == SkipWs(s, i0)
  IN IF i > Len(s) THEN SyntaxError
     ELSE IF StartsWith(s, i, <<"n","u","l","l">>) THEN Parsed(JsonNull, i + 4)
     ELSE IF StartsWith(s, i, <<"t","r","u","e">>) THEN Parsed(JsonBool(TRUE), i + 4)
     ELSE IF StartsWith(s, i, <<"f","a","l","s","e">>) THEN Parsed(JsonBool(FALSE), i + 5)
     ELSE IF s[i] = Quote THEN ParseString(s, i)
     ELSE IF s[i] = "-" \/ s[i] \in Digits THEN ParseNumber(s, i)
     ELSE IF s[i] = "["
          THEN LET j == SkipWs(s, i + 1)
               IN IF j <= Len(s) /\ s[j] = "]" THEN Parsed(JsonArray(<<>>), j + 1)
                  ELSE ParseElements(s, i + 1, <<>>)
     ELSE IF s[i] = "{"
          THEN LET j == SkipWs(s, i + 1)
               IN IF j <= Len(s) /\ s[j] = "}" THEN Parsed(JsonObject(<<>>), j + 1)
                  ELSE ParseMembers(s, i + 1, <<>>)
     ELSE SyntaxError

\* value ("," value)* "]"
ParseElements(s, i, acc) ==
  LET v == ParseValue(s, i)
  IN IF ~v.ok THEN SyntaxError
     ELSE LET j == SkipWs(s, v.next)
          IN IF j > Len(s) THEN SyntaxError
             ELSE IF s[j] = "," THEN ParseElements(s, j + 1, Append(acc, v.val))
             ELSE IF s[j] = "]" THEN Parsed(JsonArray(Append(acc, v.val)), j + 1)
             ELSE SyntaxError

\* string ":" value ("," string ":" value)* "}"; a repeated key keeps the last value
ParseMembers(s, i, acc) ==
  LET k == SkipWs(s, i)
  IN IF k > Len(s) \/ s[k] # Quote THEN SyntaxError
     ELSE LET key == ParseString(s, k)
          IN IF ~key.ok THEN SyntaxError
             ELSE LET c == SkipWs(s, key.next)
                  IN IF c > Len(s) \/ s[c] # ":" THEN SyntaxError
                     ELSE LET v == ParseValue(s, c + 1)
                          IN IF ~v.ok THEN SyntaxError
                             ELSE LET j   == SkipWs(s, v.next)
                                      new == [f \in DOMAIN acc \cup {key.val.str} |->
                                                IF f = key.val.str THEN v.val ELSE acc[f]]
                                  IN IF j > Len(s) THEN SyntaxError
                                     ELSE IF s[j] = "," THEN ParseMembers(s, j + 1, new)
                                     ELSE IF s[j] = "}" THEN Parsed(JsonObject(new), j + 1)
                                     ELSE SyntaxError

\* JSON.parse(raw): [ok |-> FALSE] stands for the SyntaxError it throws
JSONparse(raw) ==
  LET v == ParseValue(raw, 1)
  IN IF v.ok /\ SkipWs(raw, v.next) > Len(raw) THEN [ok |-> TRUE, val |-> v.val]
     ELSE SyntaxError

\* typeof x
typeof(v) ==
  CASE v.t \in {"null", "array", "object"} -> "object"
    [] v.t = "undefined" -> "undefined"
    [] OTHER -> v.t

Undefined == [t |-> "undefined"]

\* parsed.name for a parsed value that is not null: objects have their own
\* keys, every other value has no such property
GetProp(v, name) ==
  IF v.t = "object" /\ name \in DOMAIN v.fields THEN v.fields[name] ELSE Undefined

KeyAnswer == <<"a","n","s","w","e","r">>

KeySources == <<"s","o","u","r","c","e","s">>

-----------------------------------------------------------------------------
(* /ask: request bodies, prompt, model output, responses *)

Requests == 1..NumRequests

\* req.body?.question
NoQuestion == [type |-> "undefined"]

NumberQuestion(n) == [type |-> "number", num |-> n]

StringQuestion(s) == [type |-> "string", str |-> s]

\* !q
Falsy(q) ==
  \/ q.type = "undefined"
  \/ (q.type = "number" /\ q.num = 0)
  \/ (q.type = "string" /\ Len(q.str) = 0)

\* a mis-typed guard: the blank check is left out
QuestionMissing_NoTrim(q) == Falsy(q) \/ q.type # "string"

\* if (!q || typeof q !== 'string' || q.trim().length === 0)
QuestionMissing(q) == Falsy(q) \/ q.type # "string" \/ Len(trim(q.str)) = 0

\* if (q.length > 2000)
QuestionTooLong(q) == Len(q.str) > MAX_QUESTION_LENGTH

\* candidates.map((c, idx) => `[[${idx}]] DOC: ${c.doc}#${c.chunkIndex}\n${c.text}\n---\n`)
contextText(candidates) ==
  [i \in 1..Len(candidates) |->
     [idx |-> i - 1, doc |-> candidates[i].doc,
      chunkIndex |-> candidates[i].chunkIndex, text |-> candidates[i].text]]

\* the input of client.responses.create: the question and the context blocks
userPrompt(q, candidates) == [question |-> q, context |-> contextText(candidates)]

RECURSIVE join(_)
join(texts) == IF texts = <<>> THEN <<>> ELSE texts[1] \o join(Tail(texts))

\* JSON.stringify(completion) of a completion that has only an id
JSONstringify(completion) ==
  <<"{", Quote, "i", "d", Quote, ":", Quote>> \o completion.id \o <<Quote, "}">>

\* completion.output_text ?? (Array.isArray(completion.output) ? ... : JSON.stringify(completion)),
\* then raw.trim()
ExtractRaw(completion) ==
  trim(IF completion.has_output_text THEN completion.output_text
       ELSE IF completion.has_output
            THEN join([i \in 1..Len(completion.output) |->
                         IF completion.output[i].has_content
                         THEN join(completion.output[i].content)
                         ELSE <<>>])
            ELSE JSONstringify(completion))

\* Date.now() - start
latency == "Date.now() - start"

\* candidates.map(c => ({ doc, chunkIndex, score, reRankScore }))
UsedContexts(candidates) ==
  [i \in 1..Len(candidates) |->
     [doc |-> candidates[i].doc, chunkIndex |-> candidates[i].chunkIndex,
      score |-> candidates[i].score, reRankScore |-> candidates[i].reRankScore]]

\* candidates.map(c => ({ doc, chunkIndex, score })) of the shape failure
UsedContextsNoReRank(candidates) ==
  [i \in 1..Len(candidates) |->
     [doc |-> candidates[i].doc, chunkIndex |-> candidates[i].chunkIndex,
      score |-> candidates[i].score]]

NoResponse == [status |-> 0, body |-> [pending |-> TRUE]]

\* res.status(400).json({ error })
ClientError(msg) == [status |-> 400, body |-> [error |-> msg]]

\* catch (err): res.status(500).json({ error: 'server_error', details })
ServerError(details) ==
  [status |-> 500, body |-> [error |-> "server_error", details |-> details]]

\* the parse failure answered without the candidates
NotJsonResponse_NoContexts(raw, candidates) ==
  [status |-> 500,
   body |-> [error |-> "model_response_not_json", raw |-> raw,
             parseError |-> "SyntaxError", latency_ms |-> latency]]

NotJsonResponse(raw, candidates) ==
  [status |-> 500,
   body |-> [error |-> "model_response_not_json", raw |-> raw,
             parseError |-> "SyntaxError",
             used_contexts |-> UsedContexts(candidates), latency_ms |-> latency]]

InvalidShapeResponse(parsed, candidates) ==
  [status |-> 500,
   body |-> [error |-> "invalid_model_json_shape", parsed |-> parsed,
             used_contexts |-> UsedContextsNoReRank(candidates), latency_ms |-> latency]]

SuccessResponse(parsed, candidates) ==
  [status |-> 200,
   body |-> [answer |-> GetProp(parsed, KeyAnswer), sources |-> GetProp(parsed, KeySources),
             used_contexts |-> UsedContexts(candidates), latency_ms |-> latency]]

\* if (typeof parsed !== 'object' || typeof parsed.answer !== 'string'
\*     || !Array.isArray(parsed.sources)), evaluated left to right: reading a
\* property of null throws a TypeError, which the handler's catch answers
ValidateShape(parsed, candidates) ==
  IF typeof(parsed) # "object" THEN InvalidShapeResponse(parsed, candidates)
  ELSE IF parsed.t = "null"
       THEN ServerError("Cannot read properties of null (reading 'answer')")
  ELSE IF typeof(GetProp(parsed, KeyAnswer)) # "string"
       THEN InvalidShapeResponse(parsed, candidates)
  ELSE IF GetProp(parsed, KeySources).t # "array"
       THEN InvalidShapeResponse(parsed, candidates)
  ELSE SuccessResponse(parsed, candidates)

\* lines 92-128: parse the raw text, validate, answer
AnswerFor(raw, candidates) ==
  LET p == JSONparse(raw)
  IN IF ~p.ok THEN NotJsonResponse(raw, candidates) ELSE ValidateShape(p.val, candidates)

-----------------------------------------------------------------------------
(* The handler, one action per run between suspension points *)

IdleRequest ==
  [pc |-> "idle", q |-> NoQuestion, qEmb |-> <<>>, rawContexts |-> <<>>,
   candidates |-> <<>>, prompt |-> userPrompt(<<>>, <<>>), raw |-> <<>>,
   response |-> NoResponse, trace |-> <<>>]

\* loadVectors() at start-up: vectors = JSON.parse(fs.readFileSync(VPATH))
loadVectors(file, topk) ==
  /\ vectors = file
  /\ loaded = file
  /\ env = [TOP_K |-> topk]
  /\ req = [r \in Requests |-> IdleRequest]

\* lines 17-29: validate the question, then call the embedding provider
Ask(r, question) ==
  /\ req[r].pc = "idle"
  /\ req' = [req EXCEPT ![r] =
       IF QuestionMissing(question)
       THEN [@ EXCEPT !.pc = "done", !.q = question,
                      !.response = ClientError("question required")]
       ELSE IF QuestionTooLong(question)
       THEN [@ EXCEPT !.pc = "done", !.q = question,
                      !.response = ClientError("question too long")]
       ELSE [@ EXCEPT !.pc = "embedding", !.q = question,
                      !.trace = <<"embed:call">>]]
  /\ UNCHANGED <<vectors, loaded, env>>

\* lines 30-79: the embedding arrives; retrieve, boost, filter, re-rank,
\* build the prompt and call the generation provider
EmbedReturn(r, qEmb) ==
  /\ req[r].pc = "embedding"
  /\ LET tk          == topK(vectors, qEmb, env.TOP_K)
         rawContexts == BoostFileMention(req[r].q.str, tk.out)
         candidates  == ReRank(FilterWithFallback(rawContexts))
     IN /\ vectors' = tk.vectors
        /\ req' = [req EXCEPT ![r] =
             [@ EXCEPT !.pc = "generating", !.qEmb = qEmb,
                       !.rawContexts = rawContexts, !.candidates = candidates,
                       !.prompt = userPrompt(req[r].q.str, candidates),
                       !.trace = @ \o <<"embed:ok", "topK", "rank", "generate:call">>]]
  /\ UNCHANGED <<loaded, env>>

\* the embedding call rejects: catch (err)
EmbedFail(r) ==
  /\ req[r].pc = "embedding"
  /\ req' = [req EXCEPT ![r] =
       [@ EXCEPT !.pc = "done", !.response = ServerError("embedding provider error"),
                 !.trace = @ \o <<"embed:err">>]]
  /\ UNCHANGED <<vectors, loaded, env>>

\* lines 81-128: the completion arrives; extract the text, parse, validate, answer
GenReturn(r, completion) ==
  /\ req[r].pc = "generating"
  /\ LET raw == ExtractRaw(completion)
     IN req' = [req EXCEPT ![r] =
          [@ EXCEPT !.pc = "done", !.raw = raw,
                    !.response = AnswerFor(raw, req[r].candidates),
                    !.trace = @ \o <<"generate:ok", "validate">>]]
  /\ UNCHANGED <<vectors, loaded, env>>

\* the rejection swallowed (.catch(() => ({}))): the handler goes on with an
\* empty completion
GenFail_Swallowed(r) ==
  /\ req[r].pc = "generating"
  /\ LET raw == ExtractRaw([has_output_text |-> FALSE, output_text |-> <<>>,
                            has_output |-> FALSE, output |-> <<>>, id |-> <<>>])
     IN req' = [req EXCEPT ![r] =
          [@ EXCEPT !.pc = "done", !.raw = raw,
                    !.response = AnswerFor(raw, req[r].candidates),
                    !.trace = @ \o <<"generate:err">>]]
  /\ UNCHANGED <<vectors, loaded, env>>

\* the generation call rejects: catch (err)
GenFail(r) ==
  /\ req[r].pc = "generating"
  /\ req' = [req EXCEPT ![r] =
       [@ EXCEPT !.pc = "done", !.response = ServerError("generation provider error"),
                 !.trace = @ \o <<"generate:err">>]]
  /\ UNCHANGED <<vectors, loaded, env>>

-----------------------------------------------------------------------------
(* Inputs: persisted collections, questions, embeddings, completions *)

DocA == <<"A", ".", "m", "d">>

DocB == <<"b", ".", "t", "x", "t">>

\* (doc, embedding) of a chunk; against the query embeddings below the
\* cosines are -0.60, 0, 0, 0.80 and 0.28, 0.80, 0.80, 0.96
ChunkOptions ==
  { <<DocA, <<-3, 4>>>>, <<DocA, <<0, 1>>>>, <<DocB, <<0, 1>>>>, <<DocB, <<4, 3>>>> }

QueryEmbeddings == { <<1, 0>>, <<3, 4>> }

DigitChar(d) == <<"0","1","2","3","4","5","6","7","8","9">>[d + 1]

\* scripts/index.js: vectors.push({ id: `${f}#${i+j}`, doc: f, chunkIndex: i+j, text, embedding })
MakeStore(items) ==
  [i \in 1..Len(items) |->
     LET idx == Cardinality({j \in 1..(i - 1) : items[j][1] = items[i][1]})
     IN [id |-> items[i][1] \o <<"#", DigitChar(idx)>>, doc |-> items[i][1],
         chunkIndex |-> idx, text |-> <<"t", DigitChar(idx)>>,
         embedding |-> items[i][2]]]

StoresUpTo(n) == {MakeStore(s) : s \in UNION {[1..m -> ChunkOptions] : m \in 0..n}}

\* a question with no filename-like token
QPlain == <<"h", "i", "?">>

\* the mention differs from the stored doc "A.md" in case only
QMentionA == <<"s", "u", "m", " ", "a", ".", "M", "D">>

\* two filename-like tokens: the first one, x.pdf, is the boost key
QTwoMentions == <<"x", ".", "p", "d", "f", " ", "A", ".", "m", "d">>

QBlank == <<" ", "\t">>

Repeat(c, n) == [i \in 1..n |-> c]

QMaxLength == <<"b", ".", "t", "x", "t", " ">> \o Repeat("a", MAX_QUESTION_LENGTH - 6)

QTooLong == Repeat("a", MAX_QUESTION_LENGTH + 1)

Str(s) == <<Quote>> \o s \o <<Quote>>

Member(key, value) == Str(key) \o <<":">> \o value

RawValid ==
  <<"{">> \o Member(KeyAnswer, Str(<<"x">>)) \o <<",">>
          \o Member(KeySources, <<"[", "]">>) \o <<"}">>

RawWithSources ==
  <<"{">> \o Member(KeyAnswer, Str(<<"x">>)) \o <<",", " ">>
          \o Member(KeySources,
                    <<"[", "{">> \o Member(<<"d", "o", "c">>, Str(DocA)) \o <<",">>
                                 \o Member(<<"c", "h", "u", "n", "k", "I", "n", "d", "e", "x">>, <<"0">>)
                                 \o <<"}", "]">>)
          \o <<"}">>

RawNotJson == <<"n", "o", "t", " ", "j", "s", "o", "n">>

\* the valid object with prose before it
RawProse == <<"O", "K", ":", " ">> \o RawValid

RawFoo == <<"{">> \o Member(<<"f", "o", "o">>, <<"1">>) \o <<"}">>

RawNull == <<"n", "u", "l", "l">>

RawNumber == <<"4", "2">>

RawString == Str(<<"x">>)

RawTrue == <<"t", "r", "u", "e">>

RawArray == <<"[", "1", ",", " ", "2", "]">>

RawAnswerNumber ==
  <<"{">> \o Member(KeyAnswer, <<"1">>) \o <<",">>
          \o Member(KeySources, <<"[", "]">>) \o <<"}">>

RawSourcesString ==
  <<"{">> \o Member(KeyAnswer, Str(<<"x">>)) \o <<",">>
          \o Member(KeySources, Str(<<"s">>)) \o <<"}">>

RawAnswerOnly == <<"{">> \o Member(KeyAnswer, Str(<<"x">>)) \o <<"}">>

\* a completion whose output_text is set
TextCompletion(text) ==
  [has_output_text |-> TRUE, output_text |-> text, has_output |-> FALSE,
   output |-> <<>>, id |-> <<"r">>]

\* a completion with no output_text and an output array of items
OutputCompletion(items) ==
  [has_output_text |-> FALSE, output_text |-> <<>>, has_output |-> TRUE,
   output |-> items, id |-> <<"r">>]

\* a completion with neither
BareCompletion ==
  [has_output_text |-> FALSE, output_text |-> <<>>, has_output |-> FALSE,
   output |-> <<>>, id |-> <<"r">>]

\* a reasoning item without content, then a message whose text comes in two parts
SplitOutput ==
  << [has_content |-> FALSE, content |-> <<>>],
     [has_content |-> TRUE,
      content |-> << <<"\n", "{">> \o Member(KeyAnswer, Str(<<"x">>)) \o <<",">>,
                     Member(KeySources, <<"[", "]">>) \o <<"}", " ">> >>] >>

-----------------------------------------------------------------------------
(* Spec: concurrent requests over a loaded collection *)

ConcStores ==
  { MakeStore(<< <<DocA, <<-3, 4>>>>, <<DocB, <<4, 3>>>> >>),
    MakeStore(<< <<DocB, <<0, 1>>>>, <<DocA, <<0, 1>>>>, <<DocA, <<-3, 4>>>> >>) }

ConcQuestions == { NoQuestion, StringQuestion(QPlain), StringQuestion(QMentionA) }

ConcCompletions == { TextCompletion(RawValid), TextCompletion(RawNotJson) }

Init == \E file \in ConcStores : loadVectors(file, TOP_K_DEFAULT)

Next ==
  \E r \in Requests :
    \/ \E question \in ConcQuestions : Ask(r, question)
    \/ \E qEmb \in QueryEmbeddings : EmbedReturn(r, qEmb)
    \/ EmbedFail(r)
    \/ \E completion \in ConcCompletions : GenReturn(r, completion)
    \/ GenFail(r)

Spec == Init /\ [][Next]_vars

-----------------------------------------------------------------------------
(* SpecContract: one request, every kind of question and of model output *)

ContractQuestions ==
  { NoQuestion, NumberQuestion(0), NumberQuestion(7),
    StringQuestion(<<>>), StringQuestion(QBlank), StringQuestion(QPlain),
    StringQuestion(QTwoMentions), StringQuestion(QMaxLength), StringQuestion(QTooLong) }

ContractCompletions ==
  { TextCompletion(t) :
      t \in { RawValid, RawWithSources, <<" ">> \o RawValid \o <<"\n">>, RawNotJson,
              RawProse, RawFoo, RawNull, RawNumber, RawString, RawTrue, RawArray,
              RawAnswerNumber, RawSourcesString, RawAnswerOnly, <<>> } }
  \cup { OutputCompletion(SplitOutput), OutputCompletion(<<>>), BareCompletion }

InitContract == \E file \in ConcStores : loadVectors(file, TOP_K_DEFAULT)

NextContract ==
  \/ \E question \in ContractQuestions : Ask(1, question)
  \/ \E qEmb \in QueryEmbeddings : EmbedReturn(1, qEmb)
  \/ EmbedFail(1)
  \/ \E completion \in ContractCompletions : GenReturn(1, completion)
  \/ GenFail(1)

SpecContract == InitContract /\ [][NextContract]_vars

-----------------------------------------------------------------------------
(* SpecRank: one request over every collection of up to MaxChunks chunks *)

TopKValues == { 2, TOP_K_DEFAULT }

RankQuestions == { StringQuestion(QPlain), StringQuestion(QMentionA) }

InitRank ==
  \E file \in StoresUpTo(MaxChunks) : \E topk \in TopKValues : loadVectors(file, topk)

NextRank ==
  \/ \E question \in RankQuestions : Ask(1, question)
  \/ \E qEmb \in QueryEmbeddings : EmbedReturn(1, qEmb)
  \/ GenReturn(1, TextCompletion(RawValid))

SpecRank == InitRank /\ [][NextRank]_vars

-----------------------------------------------------------------------------
(* Properties *)

Min(a, b) == IF a < b THEN a ELSE b

Ids(s) == Array([i \in 1..Len(s) |-> s[i].id])

Scores(s) == Array([i \in 1..Len(s) |-> s[i].score])

InTrace(r, e) == \E i \in 1..Len(req[r].trace) : req[r].trace[i] = e

\* the request has run the retrieval and ranking steps
Ranked(r) == InTrace(r, "rank")

\* the request has been answered
Done(r) == req[r].pc = "done"

HasError(r, e) ==
  /\ "error" \in DOMAIN req[r].response.body
  /\ req[r].response.body.error = e

\* what topK returned to the request, before the in-place boost
RawTopK(r) == topK(vectors, req[r].qEmb, env.TOP_K).out

AllBelowThreshold(r) ==
  \A i \in 1..Len(req[r].rawContexts) : req[r].rawContexts[i].score < SCORE_THRESHOLD

\* the question's first filename-like token names the doc of c
Mentions(r, c) ==
  /\ fileMentionMatch(req[r].q.str) # <<>>
  /\ toLowerCase(fileMentionMatch(req[r].q.str)) = toLowerCase(c.doc)

NonIncreasing(keys) == \A i \in 1..(Len(keys) - 1) : keys[i] >= keys[i + 1]

\* position of the entry with this id in s
IndexOf(s, id) == CHOOSE i \in 1..Len(s) : s[i].id = id

(* C1 *)

\* C1 (as stated): when the raw top-K list is non-empty and every (boosted)
\* score is below the threshold, the final ranked output is non-empty and
\* equals the first min(3, length) raw top-K entries in their original order.
C1_FallbackKeepsTopKOrder ==
  \A r \in Requests :
    (Ranked(r) /\ req[r].rawContexts # <<>> /\ AllBelowThreshold(r))
    => /\ req[r].candidates # <<>>
       /\ Ids(req[r].candidates)
            = SubSeq(Ids(req[r].rawContexts), 1,
                     Min(FALLBACK_COUNT, Len(req[r].rawContexts)))

\* C1 (amended): under the same condition the final ranked output is
\* non-empty and consists of exactly the first min(3, length) raw top-K
\* entries, each with its score, ordered by non-increasing reRankScore with
\* ties in their top-K order; entries that share a doc may move ahead.
C1_FallbackIsReRankedPrefix ==
  \A r \in Requests :
    (Ranked(r) /\ req[r].rawContexts # <<>> /\ AllBelowThreshold(r))
    => LET raw == req[r].rawContexts
           n   == Min(FALLBACK_COUNT, Len(raw))
           out == req[r].candidates
       IN /\ out # <<>>
          /\ Len(out) = n
          /\ Range(Ids(out)) = {raw[i].id : i \in 1..n}
          /\ \A i \in 1..n : out[i].score = raw[IndexOf(raw, out[i].id)].score
          /\ NonIncreasing([i \in 1..n |-> out[i].reRankScore])
          /\ \A i, j \in 1..n :
               (i < j /\ out[i].reRankScore = out[j].reRankScore)
               => IndexOf(raw, out[i].id) < IndexOf(raw, out[j].id)

\* the fallback cut a list of more than three entries and the re-rank moved one
C1_Witness ==
  /\ Ranked(1) /\ AllBelowThreshold(1)
  /\ Len(req[1].rawContexts) > FALLBACK_COUNT
  /\ Len(req[1].candidates) = FALLBACK_COUNT
  /\ Ids(req[1].candidates) # SubSeq(Ids(req[1].rawContexts), 1, FALLBACK_COUNT)

(* C2 *)

\* C2 (as stated): a raw top-K candidate whose doc the question's first
\* filename-like token names has its score raised by exactly the boost, once,
\* and is in the final ranked output, whatever its score before the boost.
C2_MentionedDocAlwaysPresent ==
  \A r \in Requests :
    Ranked(r) =>
      LET before == RawTopK(r)
          out    == Range(Ids(req[r].candidates))
      IN \A i \in 1..Len(req[r].rawContexts) :
           Mentions(r, req[r].rawContexts[i])
           => /\ req[r].rawContexts[i].score = before[i].score + FILENAME_BOOST
              /\ req[r].rawContexts[i].id \in out

\* C2 (amended): such a candidate has its score raised by exactly the boost,
\* once; it is in the final ranked output when its boosted score reaches the
\* threshold, or when no score reaches the threshold and it is among the first
\* three raw entries.
C2_MentionedDocBoostedOnce ==
  \A r \in Requests :
    Ranked(r) =>
      LET before == RawTopK(r)
          out    == Range(Ids(req[r].candidates))
          low    == AllBelowThreshold(r)
      IN /\ Ids(req[r].rawContexts) = Ids(before)
         /\ \A i \in 1..Len(req[r].rawContexts) :
              LET rc == req[r].rawContexts[i]
              IN IF Mentions(r, rc)
                 THEN /\ rc.score = before[i].score + FILENAME_BOOST
                      /\ rc.score >= SCORE_THRESHOLD => rc.id \in out
                      /\ (low /\ i <= FALLBACK_COUNT) => rc.id \in out
                 ELSE rc.score = before[i].score

\* a mentioned candidate that was below the threshold before the boost is in the output
C2_Witness ==
  /\ Ranked(1)
  /\ \E i \in 1..Len(req[1].rawContexts) :
       /\ Mentions(1, req[1].rawContexts[i])
       /\ RawTopK(1)[i].score < SCORE_THRESHOLD
       /\ req[1].rawContexts[i].score >= SCORE_THRESHOLD
       /\ req[1].rawContexts[i].id \in Range(Ids(req[1].candidates))

(* C3 *)

\* C3: a model output that does not parse ends the request with
\* model_response_not_json; one that parses to a value that is not an object
\* (null, number, string, boolean), or whose answer is not a string, or whose
\* sources is not an array, ends it with invalid_model_json_shape, never with
\* another failure kind and never with success.
C3_OutputClassification ==
  \A r \in Requests :
    (Done(r) /\ InTrace(r, "validate"))
    => LET p == JSONparse(req[r].raw)
       IN IF ~p.ok THEN HasError(r, "model_response_not_json")
          ELSE (\/ p.val.t # "object"
                \/ KeyAnswer \notin DOMAIN p.val.fields
                \/ p.val.fields[KeyAnswer].t # "string"
                \/ KeySources \notin DOMAIN p.val.fields
                \/ p.val.fields[KeySources].t # "array")
               => HasError(r, "invalid_model_json_shape")

(* C4 *)

\* C4 (as stated): every failure response carries the raw model output, the
\* candidate set that was used and the latency.
C4_EveryFailureHasContext ==
  \A r \in Requests :
    (Done(r) /\ req[r].response.status # 200)
    => {"raw", "used_contexts", "latency_ms"} \subseteq DOMAIN req[r].response.body

\* C4 (amended): a model-contract failure response carries the candidate set
\* that was used and the latency, with the raw model output
\* (model_response_not_json) or the parsed value (invalid_model_json_shape);
\* a client-input failure carries only its error, and server_error only its
\* error and details.
C4_ContractFailureHasContext ==
  \A r \in Requests :
    Done(r) =>
      LET body == req[r].response.body
          used == [i \in 1..Len(req[r].candidates) |->
                     <<req[r].candidates[i].doc, req[r].candidates[i].chunkIndex,
                       req[r].candidates[i].score>>]
          sent == [i \in 1..Len(body.used_contexts) |->
                     <<body.used_contexts[i].doc, body.used_contexts[i].chunkIndex,
                       body.used_contexts[i].score>>]
      IN /\ req[r].response.status # 200 => "error" \in DOMAIN body
         /\ HasError(r, "model_response_not_json")
            => /\ {"raw", "used_contexts", "latency_ms"} \subseteq DOMAIN body
               /\ body.raw = req[r].raw
               /\ sent = used
         /\ HasError(r, "invalid_model_json_shape")
            => /\ {"parsed", "used_contexts", "latency_ms"} \subseteq DOMAIN body
               /\ "raw" \notin DOMAIN body
               /\ body.parsed = JSONparse(req[r].raw).val
               /\ sent = used
         /\ req[r].response.status = 400 => DOMAIN body = {"error"}
         /\ HasError(r, "server_error") => DOMAIN body = {"error", "details"}

\* a parse failure answered with the candidates that were used
C4_Witness ==
  /\ Done(1) /\ HasError(1, "model_response_not_json")
  /\ Len(req[1].candidates) > 1
  /\ Len(req[1].response.body.used_contexts) = Len(req[1].candidates)

(* C5 *)

\* the question is missing, not a string, empty after trimming, or too long
C5_Rejected(q) ==
  \/ q.type # "string"
  \/ \A i \in 1..Len(q.str) : IsSpace(q.str[i])
  \/ Len(q.str) > 2000

\* C5: a question that is missing, not a string, empty after trimming or
\* longer than 2000 characters ends the request at once with a 400 response
\* ('question required' or 'question too long') and no call to the embedding
\* provider, the vector store or the generation provider; a question of
\* exactly 2000 characters is accepted.
C5_InvalidInputNoCalls ==
  \A r \in Requests :
    req[r].pc # "idle" =>
      IF C5_Rejected(req[r].q)
      THEN /\ Done(r)
           /\ req[r].response.status = 400
           /\ \/ HasError(r, "question required")
              \/ (HasError(r, "question too long") /\ req[r].q.type = "string"
                  /\ Len(req[r].q.str) > 2000)
           /\ req[r].trace = <<>>
           /\ req[r].rawContexts = <<>> /\ req[r].candidates = <<>>
      ELSE /\ req[r].response.status # 400
           /\ req[r].trace # <<>>

\* a 2001-character question was rejected (and a 2000-character one could be asked)
C5_Witness ==
  /\ Done(1) /\ HasError(1, "question too long")
  /\ Len(req[1].q.str) = 2001

(* C6 *)

\* C6 (as stated): applying the ranking steps (filename boost, threshold
\* filter with fallback, doc-frequency re-rank) with the same question to a
\* sequence that is already their output leaves the order unchanged.
C6_RankIdempotent ==
  \A r \in Requests :
    Ranked(r) => Ids(Rank(req[r].q.str, req[r].candidates)) = Ids(req[r].candidates)

\* C6 (amended): applying the threshold filter with fallback and the
\* doc-frequency re-rank to their own output leaves the order unchanged, and
\* so does applying all three steps when the question's first filename-like
\* token names the doc of no candidate; when it names one, the boost is added
\* a second time and the order can change.
C6_RankIdempotentWithoutBoost ==
  \A r \in Requests :
    Ranked(r) =>
      LET out == req[r].candidates
      IN /\ Ids(ReRank(FilterWithFallback(out))) = Ids(out)
         /\ (\A i \in 1..Len(out) : ~Mentions(r, out[i]))
            => Ids(Rank(req[r].q.str, out)) = Ids(out)

\* an output the re-rank had reordered, with a tie in it, ranked again
C6_Witness ==
  /\ Ranked(1)
  /\ fileMentionMatch(req[1].q.str) = <<>>
  /\ Ids(req[1].candidates) # Ids(FilterWithFallback(req[1].rawContexts))
  /\ \E i \in 1..(Len(req[1].candidates) - 1) :
       req[1].candidates[i].reRankScore = req[1].candidates[i + 1].reRankScore
  /\ Ids(Rank(req[1].q.str, req[1].candidates)) = Ids(req[1].candidates)

(* C7 *)

\* C7: the re-rank gives each surviving candidate reRankScore = score + 0.02 *
\* (number of surviving candidates with its doc - 1); its output is a
\* permutation of the surviving candidates in order of non-increasing
\* reRankScore, candidates with equal reRankScore keeping their order from the
\* threshold/fallback step.
C7_DocFrequencyReRank ==
  \A r \in Requests :
    Ranked(r) =>
      LET surv == FilterWithFallback(req[r].rawContexts)
          out  == req[r].candidates
          n    == Len(surv)
      IN /\ Len(out) = n
         /\ Range(Ids(out)) = Range(Ids(surv))
         /\ \A i \in 1..n :
              LET c    == out[i]
                  same == Cardinality({j \in 1..n : surv[j].doc = c.doc})
              IN /\ c.score = surv[IndexOf(surv, c.id)].score
                 /\ c.doc = surv[IndexOf(surv, c.id)].doc
                 /\ c.reRankScore = c.score + 2 * (same - 1)
         /\ NonIncreasing([i \in 1..n |-> out[i].reRankScore])
         /\ \A i, j \in 1..n :
              (i < j /\ out[i].reRankScore = out[j].reRankScore)
              => IndexOf(surv, out[i].id) < IndexOf(surv, out[j].id)

\* the two surviving chunks of a doc moved ahead, their equal reRankScores keeping their order
C7_Witness ==
  /\ Ranked(1)
  /\ Ids(req[1].candidates) # Ids(FilterWithFallback(req[1].rawContexts))
  /\ \E i \in 1..Len(req[1].candidates) :
       req[1].candidates[i].reRankScore = req[1].candidates[i].score + 2
  /\ \E i \in 1..(Len(req[1].candidates) - 1) :
       req[1].candidates[i].reRankScore = req[1].candidates[i + 1].reRankScore

(* C8 *)

\* position in the collection of the chunk with this id
StoreIndex(id) == CHOOSE i \in 1..Len(vectors) : vectors[i].id = id

\* topK(qEmb, k) on the stored collection is as C8 says
TopKAsClaimed(qEmb, k) ==
  LET out == topK(vectors, qEmb, k).out
      n   == Len(out)
      at  == Array([i \in 1..n |-> StoreIndex(out[i].id)])
      cos == Array([j \in 1..Len(vectors) |-> cosine(qEmb, vectors[j].embedding)])
  IN /\ n = Min(k, Len(vectors))
     /\ \A i, j \in 1..n : i # j => at[i] # at[j]
     /\ \A i \in 1..n :
          /\ out[i].score = cos[at[i]]
          /\ out[i].doc = vectors[at[i]].doc
          /\ out[i].chunkIndex = vectors[at[i]].chunkIndex
          /\ out[i].text = vectors[at[i]].text
     /\ NonIncreasing(Scores(out))
     /\ \A i, j \in 1..n : (i < j /\ out[i].score = out[j].score) => at[i] < at[j]
     /\ \A j \in 1..Len(vectors) :
          (\A i \in 1..n : at[i] # j)
          => \A i \in 1..n : \/ out[i].score > cos[j]
                             \/ (out[i].score = cos[j] /\ at[i] < j)

Before(r, e1, e2) ==
  \A i, j \in 1..Len(req[r].trace) :
    (req[r].trace[i] = e1 /\ req[r].trace[j] = e2) => i < j

\* C9: in one request the embedding call completes before retrieval, and
\* retrieval and ranking before the generation call; after a failed embedding
\* call neither retrieval nor generation happens; a failed provider call ends
\* the request with server_error, never with a contract failure or success.
C9_StagesInOrderFailuresAreServerErrors ==
  \A r \in Requests :
    /\ Before(r, "embed:call", "embed:ok") /\ Before(r, "embed:ok", "topK")
    /\ Before(r, "topK", "rank") /\ Before(r, "rank", "generate:call")
    /\ Before(r, "generate:call", "generate:ok")
    /\ (InTrace(r, "topK") \/ InTrace(r, "generate:call")) => InTrace(r, "embed:ok")
    /\ InTrace(r, "generate:call") => (InTrace(r, "topK") /\ InTrace(r, "rank"))
    /\ InTrace(r, "embed:err")
       => /\ ~InTrace(r, "topK") /\ ~InTrace(r, "rank") /\ ~InTrace(r, "generate:call")
          /\ req[r].rawContexts = <<>> /\ req[r].candidates = <<>>
    /\ (InTrace(r, "embed:err") \/ InTrace(r, "generate:err"))
       => /\ Done(r)
          /\ req[r].response.status = 500
          /\ HasError(r, "server_error")
          /\ ~InTrace(r, "validate")

\* one request ended by a failed embedding call, another by a failed generation call
C9_Witness ==
  \E r1, r2 \in Requests :
    /\ InTrace(r1, "embed:err") /\ Done(r1)
    /\ InTrace(r2, "generate:err") /\ Done(r2) /\ Ranked(r2)

(* C10 *)

\* C10: after loadVectors no request modifies the stored collection, and the
\* in-place boost of one request changes no score another request sees: what
\* each request retrieved is what topK gives for its query embedding on the
\* collection as loaded.
C10_StoreIsolated ==
  /\ vectors = loaded
  /\ \A r \in Requests :
       Ranked(r) =>
         LET fresh == topK(loaded, req[r].qEmb, env.TOP_K).out
         IN /\ req[r].rawContexts = BoostFileMention(req[r].q.str, fresh)
            /\ \A i \in 1..Len(fresh) :
                 fresh[i].score = cosine(req[r].qEmb, loaded[IndexOf(loaded, fresh[i].id)].embedding)

\* two requests retrieved with the same query embedding; one boosted its copy, the other did not
C10_Witness ==
  \E r1, r2 \in Requests :
    /\ r1 # r2 /\ Ranked(r1) /\ Ranked(r2)
    /\ req[r1].qEmb = req[r2].qEmb
    /\ Ids(req[r1].rawContexts) = Ids(req[r2].rawContexts)
    /\ Scores(req[r1].rawContexts) # Scores(req[r2].rawContexts)
    /\ Ids(req[r1].rawContexts) # Ids(loaded)

====
